---------------------------- MODULE Spec2Model ----------------------------
(***************************************************************************)
(* Model of src/app.py, the "Project Budget Monitor" Streamlit script.     *)
(*                                                                         *)
(* The script is re-executed from its first line on every widget edit.     *)
(* The state is therefore the content of the widgets together with the     *)
(* values the last execution bound to the script's names (est_cost,        *)
(* act_cost, est_total, ..., data, final_df).  Every action is one edit    *)
(* of one widget followed by the whole re-execution.                       *)
(*                                                                         *)
(* Units.  Every quantity the script handles has been rounded to two       *)
(* decimals on entry (lines 37, 53-62), so hours are integers counting     *)
(* hundredths of an hour and money is an integer counting cents; a rate    *)
(* of r USD/hour turns h hundredths of an hour into h*r cents.  Raw widget *)
(* content that has not been rounded yet is a text (estimated fields) or   *)
(* an integer counting thousandths (number fields).  Percentages are       *)
(* integers counting hundredths of a percent.  Binary floating point       *)
(* representation error is not modelled: arithmetic is exact decimal.      *)
(***************************************************************************)
EXTENDS Integers, Sequences, FiniteSets, TLC

\* ------------------------------------------------------------------------
\* Bounds of the model
\* ------------------------------------------------------------------------

\* Number of committed widget edits (script re-executions) in a session.
MaxEdits == 2

\* Number fields take the values 0, 0.004, 0.008, ... , MaxTicks * 0.004.
MaxTicks == 4

\* Longest text typed into an estimated-cost field, in characters.
MaxLen == 4

\* ------------------------------------------------------------------------
\* Rate table (lines 18-24)
\* ------------------------------------------------------------------------

LABOR_COST_WORKER == 10

LABOR_COST_OFFICE == 10

\* The dict literal of lines 20-24: keys in insertion order, and the values.
MACHINE_COST ==
    [keys |-> <<"CNC", "Robot", "Autoclave">>,
     val  |-> ("CNC" :> 10) @@ ("Robot" :> 10) @@ ("Autoclave" :> 10)]

\* ------------------------------------------------------------------------
\* Python dict: insertion-ordered keys and a value for each
\* ------------------------------------------------------------------------

EmptyDict == [keys |-> <<>>, val |-> <<>>]

\* d[k] = v
DictSet(d, k, v) ==
    [keys |-> IF k \in DOMAIN d.val THEN d.keys ELSE Append(d.keys, k),
     val  |-> (k :> v) @@ d.val]

\* d.get(k, default)
DictGet(d, k, default) == IF k \in DOMAIN d.val THEN d.val[k] ELSE default

\* set(d.keys())
DictKeys(d) == DOMAIN d.val

RECURSIVE SumSeq(_)
SumSeq(s) == IF s = <<>> THEN 0 ELSE s[1] + SumSeq(Tail(s))

\* sum(d.values())
SumValues(d) == SumSeq([i \in 1..Len(d.keys) |-> d.val[d.keys[i]]])

\* ------------------------------------------------------------------------
\* round(x, 2) and the free-text parser (lines 33-39)
\* ------------------------------------------------------------------------

Abs(n) == IF n < 0 THEN -n ELSE n

RECURSIVE Pow10(_)
Pow10(n) == IF n = 0 THEN 1 ELSE 10 * Pow10(n - 1)

\* The integer nearest to n/d (d # 0), an exact tie going to the even one:
\* Python's round().
RoundHalfEven(n, d) ==
    LET nn == IF d < 0 THEN -n ELSE n
        dd == Abs(d)
        q  == nn \div dd
        r  == nn - q * dd
    IN  IF 2 * r < dd THEN q
        ELSE IF 2 * r > dd THEN q + 1
        ELSE IF q % 2 = 0 THEN q ELSE q + 1

DigitVal ==
    ("0" :> 0) @@ ("1" :> 1) @@ ("2" :> 2) @@ ("3" :> 3) @@ ("4" :> 4) @@
    ("5" :> 5) @@ ("6" :> 6) @@ ("7" :> 7) @@ ("8" :> 8) @@ ("9" :> 9)

IsDigit(c) == c \in DOMAIN DigitVal

\* raw.replace(",", "")
StripCommas(raw) == SelectSeq(raw, LAMBDA c : c # ",")

RECURSIVE DigitsValue(_)
DigitsValue(s) ==
    IF s = <<>> THEN 0
    ELSE 10 * DigitsValue(SubSeq(s, 1, Len(s) - 1)) + DigitVal[s[Len(s)]]

\* Index of the first "." of s, 0 when there is none.
DotIndex(s) ==
    IF \E i \in 1..Len(s) : s[i] = "."
    THEN CHOOSE i \in 1..Len(s) : s[i] = "." /\ \A j \in 1..(i - 1) : s[j] # "."
    ELSE 0

\* float(s) for a text of signs, digits, points and other characters:
\* [sign] digits [. digits] with at least one digit, anything else raises
\* ValueError.  The value is mant / 10^frac.  (Exponents, "inf", "nan",
\* blanks and underscores are outside the alphabet of the model.)
float(s) ==
    LET signed == s # <<>> /\ s[1] \in {"-", "+"}
        body   == IF signed THEN Tail(s) ELSE s
        dot    == DotIndex(body)
        int    == IF dot = 0 THEN body ELSE SubSeq(body, 1, dot - 1)
        fracp  == IF dot = 0 THEN <<>> ELSE SubSeq(body, dot + 1, Len(body))
        ok     == /\ \A i \in 1..Len(int) : IsDigit(int[i])
                  /\ \A i \in 1..Len(fracp) : IsDigit(fracp[i])
                  /\ Len(int) + Len(fracp) >= 1
        mag    == DigitsValue(int \o fracp)
    IN  IF ok
        THEN [raises |-> FALSE,
              mant   |-> IF signed /\ s[1] = "-" THEN -mag ELSE mag,
              frac   |-> Len(fracp)]
        ELSE [raises |-> TRUE, mant |-> 0, frac |-> 0]

\* parse_number_input without the replace(",", "") of line 37.
parse_number_input_keep_commas(raw) ==
    LET x == float(raw)
    IN  IF x.raises THEN 0
        ELSE RoundHalfEven(x.mant * 100, Pow10(x.frac))

\* parse_number_input: the number of hundredths returned for the text raw.
parse_number_input(raw) ==
    LET x == float(StripCommas(raw))
    IN  IF x.raises THEN 0
        ELSE RoundHalfEven(x.mant * 100, Pow10(x.frac))

\* round(st.number_input(..., min_value=0.0), 2): hundredths from thousandths.
round_number_input(v) == RoundHalfEven(v * 100, 1000)

\* k more decimal digits of the quotient q remainder r of a division by d.
RECURSIVE LongDivision(_, _, _, _)
LongDivision(q, r, d, k) ==
    IF k = 0 THEN [q |-> q, r |-> r]
    ELSE LongDivision(10 * q + (10 * r) \div d, (10 * r) % d, d, k - 1)

\* round(n / d * 100, 2) for d # 0, in hundredths of a percent: the
\* quotient to four decimals by long division, then rounded as
\* RoundHalfEven does.
percent_round(n, d) ==
    LET nn == IF d < 0 THEN -n ELSE n
        dd == Abs(d)
        x  == LongDivision(nn \div dd, nn % dd, dd, 4)
    IN  IF 2 * x.r < dd THEN x.q
        ELSE IF 2 * x.r > dd THEN x.q + 1
        ELSE IF x.q % 2 = 0 THEN x.q ELSE x.q + 1

\* ------------------------------------------------------------------------
\* State
\* ------------------------------------------------------------------------

VARIABLES
    rate_table,            \* the globals bound by lines 18-24
    est_raw,               \* text of each estimated-cost field (line 34)
    act_raw,               \* value of each actual-cost number field
    extra_raw,             \* value of the warranty and afterwork fields
    lump_raw,              \* value of the two lump-sum fields
    est_labor_worker, est_labor_office, est_machine, est_material,
    act_labor_worker, act_labor_office, act_machine, act_material,
    warranty_cost, afterwork_cost,
    est_cost, est_total,
    act_cost, act_total, act_total_with_extra,
    data,                  \* the rows of summary_df (lines 86-99)
    final_df,              \* lines 151-170
    fallback,              \* the degraded lump-sum mode and its outputs
    edits,                 \* committed edits so far
    log                    \* history: the snapshot and outputs of every pass

widgets == <<est_raw, act_raw, extra_raw, lump_raw>>

locals ==
    <<est_labor_worker, est_labor_office, est_machine, est_material,
      act_labor_worker, act_labor_office, act_machine, act_material,
      warranty_cost, afterwork_cost>>

outputs ==
    <<est_cost, est_total, act_cost, act_total, act_total_with_extra,
      data, final_df, fallback>>

vars == <<rate_table, widgets, locals, outputs, edits, log>>

Machines == {MACHINE_COST.keys[i] : i \in 1..Len(MACHINE_COST.keys)}

\* The estimated and the actual fields, named by the category they feed.
Fields == {"Labor - Worker", "Labor - Office", "Material"} \cup Machines

ExtraFields == {"Warranty", "Afterwork"}

LumpFields == {"Sold Price", "Actual Cost"}

\* ------------------------------------------------------------------------
\* Inputs (lines 44-62)
\* ------------------------------------------------------------------------

\* f"{default:,.2f}" for default = 0.0: the text a field starts with.
DefaultText == <<"0", ".", "0", "0">>

\* The loop of lines 47-49.
RECURSIVE est_machine_loop(_, _, _)
est_machine_loop(d, i, raw) ==
    IF i > Len(MACHINE_COST.keys) THEN d
    ELSE LET machine == MACHINE_COST.keys[i]
         IN  est_machine_loop(
                 DictSet(d, machine, parse_number_input(raw[machine])),
                 i + 1, raw)

\* The loop of lines 55-57.
RECURSIVE act_machine_loop(_, _, _)
act_machine_loop(d, i, raw) ==
    IF i > Len(MACHINE_COST.keys) THEN d
    ELSE LET machine == MACHINE_COST.keys[i]
         IN  act_machine_loop(
                 DictSet(d, machine, round_number_input(raw[machine])),
                 i + 1, raw)

\* ------------------------------------------------------------------------
\* Calculations (lines 64-82)
\* ------------------------------------------------------------------------

RECURSIVE cost_machine_loop(_, _, _)
cost_machine_loop(cost, i, hours) ==
    IF i > Len(MACHINE_COST.keys) THEN cost
    ELSE LET machine == MACHINE_COST.keys[i]
         IN  cost_machine_loop(
                 DictSet(cost, machine,
                         hours.val[machine] * MACHINE_COST.val[machine]),
                 i + 1, hours)

\* Lines 65-71 with the material cost multiplied by a rate as well.
est_cost_calc_material_rated(labor_worker, labor_office, machine, material) ==
    cost_machine_loop(
        DictSet(DictSet(DictSet(EmptyDict,
            "Labor - Worker", labor_worker * LABOR_COST_WORKER),
            "Labor - Office", labor_office * LABOR_COST_OFFICE),
            "Material", material * LABOR_COST_WORKER),
        1, machine)

\* Lines 65-69 without the loop of lines 70-71.
est_cost_calc_no_machines(labor_worker, labor_office, machine, material) ==
    DictSet(DictSet(DictSet(EmptyDict,
        "Labor - Worker", labor_worker * LABOR_COST_WORKER),
        "Labor - Office", labor_office * LABOR_COST_OFFICE),
        "Material", material)

\* Lines 65-71.
est_cost_calc(labor_worker, labor_office, machine, material) ==
    cost_machine_loop(
        DictSet(DictSet(DictSet(EmptyDict,
            "Labor - Worker", labor_worker * LABOR_COST_WORKER),
            "Labor - Office", labor_office * LABOR_COST_OFFICE),
            "Material", material),
        1, machine)

\* Line 72.
est_total_calc(cost) == SumValues(cost)

\* Lines 74-80.
act_cost_calc(labor_worker, labor_office, machine, material) ==
    cost_machine_loop(
        DictSet(DictSet(DictSet(EmptyDict,
            "Labor - Worker", labor_worker * LABOR_COST_WORKER),
            "Labor - Office", labor_office * LABOR_COST_OFFICE),
            "Material", material),
        1, machine)

\* Line 81.
act_total_calc(cost) == SumValues(cost)

\* Line 82 without the afterwork cost.
act_total_with_extra_calc_no_afterwork(total, warranty, afterwork) ==
    total + warranty

\* Line 82.
act_total_with_extra_calc(total, warranty, afterwork) ==
    total + warranty + afterwork

\* ------------------------------------------------------------------------
\* Summary table (lines 86-99)
\* ------------------------------------------------------------------------

\* Lines 88-98 with the difference taken as actual - estimated.
summary_row_swapped(category, ec, ac) ==
    LET estimated    == ec.val[category]
        actual       == DictGet(ac, category, 0)
        diff         == actual - estimated
    IN  [Category      |-> category,
         Estimated     |-> estimated,
         Actual        |-> actual,
         Difference    |-> diff,
         DifferencePct |-> IF estimated # 0
                           THEN percent_round(diff, estimated)
                           ELSE 0]

\* Lines 88-98: the row of one category.
summary_row(category, ec, ac) ==
    LET estimated    == ec.val[category]
        actual       == DictGet(ac, category, 0)
        diff         == estimated - actual
    IN  [Category      |-> category,
         Estimated     |-> estimated,
         Actual        |-> actual,
         Difference    |-> diff,
         DifferencePct |-> IF estimated # 0
                           THEN percent_round(diff, estimated)
                           ELSE 0]

\* Lines 86-87: one row for each key of est_cost, in its order.
summary_rows(ec, ac) ==
    [i \in 1..Len(ec.keys) |-> summary_row(ec.keys[i], ec, ac)]

\* ------------------------------------------------------------------------
\* Final summary (lines 151-170)
\* ------------------------------------------------------------------------

\* Line 168 with the gap taken relative to the actual total.
gap_pct_of_actual(et, atx) ==
    IF atx # 0 THEN percent_round(atx - et, atx) ELSE 0

\* Line 168.
gap_pct(et, atx) ==
    IF et # 0 THEN percent_round(atx - et, et) ELSE 0

\* Lines 151-170 with the gap of line 167 taken as estimated - actual.
final_df_calc_gap_flipped(et, at, warranty, afterwork, atx) ==
    <<[Item |-> "Estimated Total", Value |-> et],
      [Item |-> "Actual Total (No Warranty/Afterwork)", Value |-> at],
      [Item |-> "Warranty Cost", Value |-> warranty],
      [Item |-> "Afterwork Cost", Value |-> afterwork],
      [Item |-> "Actual Total (All Included)", Value |-> atx],
      [Item |-> "Gap (USD)", Value |-> et - atx],
      [Item |-> "Gap (%)", Value |-> IF et # 0
                                     THEN percent_round(atx - et, et)
                                     ELSE 0]>>

\* Lines 151-170.
final_df_calc(et, at, warranty, afterwork, atx) ==
    <<[Item |-> "Estimated Total", Value |-> et],
      [Item |-> "Actual Total (No Warranty/Afterwork)", Value |-> at],
      [Item |-> "Warranty Cost", Value |-> warranty],
      [Item |-> "Afterwork Cost", Value |-> afterwork],
      [Item |-> "Actual Total (All Included)", Value |-> atx],
      [Item |-> "Gap (USD)", Value |-> atx - et],
      [Item |-> "Gap (%)", Value |-> gap_pct(et, atx)]>>

\* The value of the row of final_df named item.
FinalValue(df, item) ==
    LET i == CHOOSE j \in 1..Len(df) : df[j].Item = item IN df[i].Value

\* ------------------------------------------------------------------------
\* Degraded lump-sum mode (specification section 4.2; not in src/app.py)
\* ------------------------------------------------------------------------

\* The degraded mode entered as soon as either total is 0.
aggregator_outputs_either_zero(et, atx, ec, ac, rows, lump) ==
    IF et = 0 \/ atx = 0
    THEN [active        |-> TRUE,
          estBreakdown  |-> EmptyDict,
          actBreakdown  |-> EmptyDict,
          varianceRows  |-> <<>>,
          finalSummary  |->
              [estimatedTotal  |-> lump["Sold Price"],
               actualTotalFull |-> lump["Actual Cost"],
               gapAbs |-> lump["Actual Cost"] - lump["Sold Price"],
               gapPct |-> IF lump["Sold Price"] # 0
                          THEN percent_round(
                                   lump["Actual Cost"] - lump["Sold Price"],
                                   lump["Sold Price"])
                          ELSE 0]]
    ELSE [active        |-> FALSE,
          estBreakdown  |-> ec,
          actBreakdown  |-> ac,
          varianceRows  |-> rows,
          finalSummary  |->
              [estimatedTotal  |-> et,
               actualTotalFull |-> atx,
               gapAbs |-> atx - et,
               gapPct |-> IF et # 0 THEN percent_round(atx - et, et)
                          ELSE 0]]

\* What the aggregator hands to the presentation: the computed breakdowns,
\* rows and summary, or, when both totals are 0, empty collections and a
\* summary made of the two lump sums.
aggregator_outputs(et, atx, ec, ac, rows, lump) ==
    IF et = 0 /\ atx = 0
    THEN [active        |-> TRUE,
          estBreakdown  |-> EmptyDict,
          actBreakdown  |-> EmptyDict,
          varianceRows  |-> <<>>,
          finalSummary  |->
              [estimatedTotal  |-> lump["Sold Price"],
               actualTotalFull |-> lump["Actual Cost"],
               gapAbs |-> lump["Actual Cost"] - lump["Sold Price"],
               gapPct |-> gap_pct(lump["Sold Price"], lump["Actual Cost"])]]
    ELSE [active        |-> FALSE,
          estBreakdown  |-> ec,
          actBreakdown  |-> ac,
          varianceRows  |-> rows,
          finalSummary  |->
              [estimatedTotal  |-> et,
               actualTotalFull |-> atx,
               gapAbs |-> atx - et,
               gapPct |-> gap_pct(et, atx)]]

\* ------------------------------------------------------------------------
\* One execution of the script on the widgets' content
\* ------------------------------------------------------------------------

\* Lines 18-24.
RateTable ==
    [LABOR_COST_WORKER |-> LABOR_COST_WORKER,
     LABOR_COST_OFFICE |-> LABOR_COST_OFFICE,
     MACHINE_COST      |-> MACHINE_COST]

\* Lines 44-62: the names bound from the widgets.
Inputs(er, ar, xr) ==
    [est_labor_worker |-> parse_number_input(er["Labor - Worker"]),
     est_labor_office |-> parse_number_input(er["Labor - Office"]),
     est_machine      |-> est_machine_loop(EmptyDict, 1, er),
     est_material     |-> parse_number_input(er["Material"]),
     act_labor_worker |-> round_number_input(ar["Labor - Worker"]),
     act_labor_office |-> round_number_input(ar["Labor - Office"]),
     act_machine      |-> act_machine_loop(EmptyDict, 1, ar),
     act_material     |-> round_number_input(ar["Material"]),
     warranty_cost    |-> round_number_input(xr["Warranty"]),
     afterwork_cost   |-> round_number_input(xr["Afterwork"])]

\* Lines 64-170: everything the script computes from the inputs in.
Calculations(in, lr) ==
    LET ec   == est_cost_calc(in.est_labor_worker, in.est_labor_office,
                              in.est_machine, in.est_material)
        et   == est_total_calc(ec)
        ac   == act_cost_calc(in.act_labor_worker, in.act_labor_office,
                              in.act_machine, in.act_material)
        at   == act_total_calc(ac)
        atx  == act_total_with_extra_calc(at, in.warranty_cost,
                                          in.afterwork_cost)
        rows == summary_rows(ec, ac)
    IN  [est_cost |-> ec, est_total |-> et,
         act_cost |-> ac, act_total |-> at, act_total_with_extra |-> atx,
         data     |-> rows,
         final_df |-> final_df_calc(et, at, in.warranty_cost,
                                    in.afterwork_cost, atx),
         fallback |-> aggregator_outputs(et, atx, ec, ac, rows, lr)]

\* The state an execution on the widgets er, ar, xr, lr leaves behind: every
\* name of the script bound to the value this execution gave it.
RunBind(er, ar, xr, lr, in, out) ==
    /\ rate_table' = RateTable
    /\ est_raw' = er /\ act_raw' = ar /\ extra_raw' = xr /\ lump_raw' = lr
    /\ est_labor_worker' = in.est_labor_worker
    /\ est_labor_office' = in.est_labor_office
    /\ est_machine' = in.est_machine
    /\ est_material' = in.est_material
    /\ act_labor_worker' = in.act_labor_worker
    /\ act_labor_office' = in.act_labor_office
    /\ act_machine' = in.act_machine
    /\ act_material' = in.act_material
    /\ warranty_cost' = in.warranty_cost
    /\ afterwork_cost' = in.afterwork_cost
    /\ est_cost' = out.est_cost
    /\ est_total' = out.est_total
    /\ act_cost' = out.act_cost
    /\ act_total' = out.act_total
    /\ act_total_with_extra' = out.act_total_with_extra
    /\ data' = out.data
    /\ final_df' = out.final_df
    /\ fallback' = out.fallback

\* A re-execution that adds the material cost it parses to the one the
\* previous execution left behind.
Run_carry(er, ar, xr, lr) ==
    \E in \in {[Inputs(er, ar, xr) EXCEPT
                   !.est_material = @ + est_material]} :
    \E out \in {Calculations(in, lr)} :
        RunBind(er, ar, xr, lr, in, out)

\* The script from line 1 to its end, on the widgets er, ar, xr, lr.
Run(er, ar, xr, lr) ==
    \E in \in {Inputs(er, ar, xr)} :
    \E out \in {Calculations(in, lr)} :
        RunBind(er, ar, xr, lr, in, out)

\* The first execution: every text field holds DefaultText, every number
\* field 0.
Init ==
    \E er \in {[f \in Fields |-> DefaultText]} :
    \E ar \in {[f \in Fields |-> 0]} :
    \E xr \in {[f \in ExtraFields |-> 0]} :
    \E lr \in {[f \in LumpFields |-> 0]} :
    \E in \in {Inputs(er, ar, xr)} :
    \E out \in {Calculations(in, lr)} :
        /\ rate_table = RateTable
        /\ est_raw = er /\ act_raw = ar /\ extra_raw = xr /\ lump_raw = lr
        /\ est_labor_worker = in.est_labor_worker
        /\ est_labor_office = in.est_labor_office
        /\ est_machine = in.est_machine
        /\ est_material = in.est_material
        /\ act_labor_worker = in.act_labor_worker
        /\ act_labor_office = in.act_labor_office
        /\ act_machine = in.act_machine
        /\ act_material = in.act_material
        /\ warranty_cost = in.warranty_cost
        /\ afterwork_cost = in.afterwork_cost
        /\ est_cost = out.est_cost
        /\ est_total = out.est_total
        /\ act_cost = out.act_cost
        /\ act_total = out.act_total
        /\ act_total_with_extra = out.act_total_with_extra
        /\ data = out.data
        /\ final_df = out.final_df
        /\ fallback = out.fallback
        /\ edits = 0
        /\ log = {[snapshot |-> <<er, ar, xr, lr>>, outputs |-> out]}

\* ------------------------------------------------------------------------
\* The user's edits
\* ------------------------------------------------------------------------

\* Texts committed to an estimated-cost field: the default, three amounts
\* (one with a third decimal, one negative) and one that is no number; the
\* material cost, in USD, may also carry a thousands separator.
EstTexts(field) ==
    {DefaultText,
     <<".", "0", "3">>,
     <<".", "0", "1", "4">>,
     <<"-", ".", "0", "2">>,
     <<"x">>}
    \cup (IF field = "Material" THEN {<<"1", ",", "0", "0", "0">>} ELSE {})

\* Values of a number field, in thousandths; min_value=0.0 keeps them >= 0.
NumberInputValues == {4 * k : k \in 0..MaxTicks}

\* Values of a lump-sum field, in cents.
LumpValues == 0..MaxTicks

EditEstimated(field, text) ==
    /\ edits < MaxEdits
    /\ text # est_raw[field]
    /\ Run([est_raw EXCEPT ![field] = text], act_raw, extra_raw, lump_raw)
    /\ edits' = edits + 1

EditActual(field, v) ==
    /\ edits < MaxEdits
    /\ v # act_raw[field]
    /\ Run(est_raw, [act_raw EXCEPT ![field] = v], extra_raw, lump_raw)
    /\ edits' = edits + 1

EditExtra(field, v) ==
    /\ edits < MaxEdits
    /\ v # extra_raw[field]
    /\ Run(est_raw, act_raw, [extra_raw EXCEPT ![field] = v], lump_raw)
    /\ edits' = edits + 1

\* The lump-sum fields are shown in the degraded mode only.
EditLumpSum(field, v) ==
    /\ edits < MaxEdits
    /\ fallback.active
    /\ v # lump_raw[field]
    /\ Run(est_raw, act_raw, extra_raw, [lump_raw EXCEPT ![field] = v])
    /\ edits' = edits + 1

Next ==
    \/ \E field \in Fields : \E text \in EstTexts(field) :
           EditEstimated(field, text) /\ UNCHANGED log
    \/ \E field \in Fields, v \in NumberInputValues :
           EditActual(field, v) /\ UNCHANGED log
    \/ \E field \in ExtraFields, v \in NumberInputValues :
           EditExtra(field, v) /\ UNCHANGED log
    \/ \E field \in LumpFields, v \in LumpValues :
           EditLumpSum(field, v) /\ UNCHANGED log

Spec == Init /\ [][Next]_vars

\* The pass just made, added to the history.
Record ==
    log' = log \cup
        {[snapshot |-> widgets',
          outputs  |-> [est_cost |-> est_cost', est_total |-> est_total',
                        act_cost |-> act_cost', act_total |-> act_total',
                        act_total_with_extra |-> act_total_with_extra',
                        data |-> data', final_df |-> final_df',
                        fallback |-> fallback']]}

\* The same session with the history of passes recorded.
NextLog ==
    \/ \E field \in Fields : \E text \in EstTexts(field) :
           EditEstimated(field, text) /\ Record
    \/ \E field \in Fields, v \in NumberInputValues :
           EditActual(field, v) /\ Record
    \/ \E field \in ExtraFields, v \in NumberInputValues :
           EditExtra(field, v) /\ Record
    \/ \E field \in LumpFields, v \in LumpValues :
           EditLumpSum(field, v) /\ Record

SpecLog == Init /\ [][NextLog]_vars

\* ------------------------------------------------------------------------
\* Typing into one estimated-cost field, a keystroke at a time
\* ------------------------------------------------------------------------

Alphabet == {"1", "7", ",", ".", "-", "x"}

TypedField == "Material"

TypeChar(c) ==
    /\ Len(est_raw[TypedField]) < MaxLen
    /\ Run([est_raw EXCEPT ![TypedField] = Append(@, c)],
           act_raw, extra_raw, lump_raw)
    /\ UNCHANGED <<edits, log>>

Backspace ==
    /\ est_raw[TypedField] # <<>>
    /\ Run([est_raw EXCEPT ![TypedField] = SubSeq(@, 1, Len(@) - 1)],
           act_raw, extra_raw, lump_raw)
    /\ UNCHANGED <<edits, log>>

NextParse ==
    \/ \E c \in Alphabet : TypeChar(c)
    \/ Backspace

SpecParse == Init /\ [][NextParse]_vars

\* ------------------------------------------------------------------------
\* Vocabulary of the properties
\* ------------------------------------------------------------------------

Range(seq) == {seq[i] : i \in 1..Len(seq)}

RECURSIVE SetSum(_, _)
SetSum(f, S) ==
    IF S = {} THEN 0
    ELSE LET x == CHOOSE y \in S : TRUE IN f[x] + SetSum(f, S \ {x})

\* The category set fixed by the rate table.
FixedCategories ==
    {"Labor - Worker", "Labor - Office", "Material"}
        \cup Range(rate_table.MACHINE_COST.keys)

\* The number the script holds for estimated field f.
EstValue(f) ==
    CASE f = "Labor - Worker" -> est_labor_worker
      [] f = "Labor - Office" -> est_labor_office
      [] f = "Material"       -> est_material
      [] OTHER                -> est_machine.val[f]

Categories(rows) == {rows[i].Category : i \in 1..Len(rows)}

\* ------------------------------------------------------------------------
\* C1
\* ------------------------------------------------------------------------

\* C1: in both breakdowns every labor and machine category costs its hours
\* times its rate, Material is the material cost itself, and the key set is
\* exactly the three fixed categories plus the machine names of the rate
\* table, whatever the inputs; so both breakdowns have the same keys.
C1_BreakdownIsHoursTimesRate ==
    /\ DictKeys(est_cost) = FixedCategories
    /\ DictKeys(act_cost) = FixedCategories
    /\ est_cost.val["Labor - Worker"]
           = est_labor_worker * rate_table.LABOR_COST_WORKER
    /\ est_cost.val["Labor - Office"]
           = est_labor_office * rate_table.LABOR_COST_OFFICE
    /\ est_cost.val["Material"] = est_material
    /\ act_cost.val["Labor - Worker"]
           = act_labor_worker * rate_table.LABOR_COST_WORKER
    /\ act_cost.val["Labor - Office"]
           = act_labor_office * rate_table.LABOR_COST_OFFICE
    /\ act_cost.val["Material"] = act_material
    /\ \A m \in Range(rate_table.MACHINE_COST.keys) :
           /\ est_cost.val[m]
                  = est_machine.val[m] * rate_table.MACHINE_COST.val[m]
           /\ act_cost.val[m]
                  = act_machine.val[m] * rate_table.MACHINE_COST.val[m]

\* Non-negative inputs, some of them zero and some not, on both sides.
C1_Witness ==
    /\ \A f \in Fields : EstValue(f) >= 0
    /\ est_machine.val["CNC"] > 0 /\ est_material = 0
    /\ act_material > 0 /\ act_machine.val["CNC"] = 0

\* ------------------------------------------------------------------------
\* C2
\* ------------------------------------------------------------------------

\* C2 as stated: every row has differenceAbs = estimated - actual and
\* differencePct exactly differenceAbs / estimated * 100, or 0 when
\* estimated = 0.
C2_ExactPercent ==
    \A i \in 1..Len(data) :
        LET row == data[i]
        IN  /\ row.Difference = row.Estimated - row.Actual
            /\ IF row.Estimated # 0
               THEN row.DifferencePct * row.Estimated
                        = row.Difference * 100 * 100
               ELSE row.DifferencePct = 0

\* C2, amended: every row has differenceAbs = estimated - actual and
\* differencePct equal to differenceAbs / estimated * 100 rounded to two
\* decimals (at most half a hundredth of a percent away), or 0 when
\* estimated = 0.
C2_RoundedPercent ==
    \A i \in 1..Len(data) :
        LET row == data[i]
        IN  /\ row.Difference = row.Estimated - row.Actual
            /\ IF row.Estimated # 0
               THEN 2 * Abs(row.DifferencePct * row.Estimated
                                - row.Difference * 100 * 100)
                        <= Abs(row.Estimated)
               ELSE row.DifferencePct = 0

\* A row whose percentage needed rounding.
C2_Witness ==
    \E i \in 1..Len(data) :
        /\ data[i].Estimated # 0 /\ data[i].Actual # 0
        /\ data[i].DifferencePct * data[i].Estimated
               # data[i].Difference * 100 * 100

\* ------------------------------------------------------------------------
\* C3
\* ------------------------------------------------------------------------

\* C3: estimatedTotal is the sum of the estimated breakdown's values,
\* actualTotalCore the sum of the actual breakdown's values (warranty and
\* afterwork excluded), actualTotalFull = actualTotalCore + warranty +
\* afterwork, and gapAbs = actualTotalFull - estimatedTotal; the final
\* summary shows these values.
C3_Totals ==
    /\ est_total = SetSum(est_cost.val, DictKeys(est_cost))
    /\ act_total = SetSum(act_cost.val, DictKeys(act_cost))
    /\ act_total_with_extra = act_total + warranty_cost + afterwork_cost
    /\ FinalValue(final_df, "Estimated Total") = est_total
    /\ FinalValue(final_df, "Actual Total (No Warranty/Afterwork)")
           = act_total
    /\ FinalValue(final_df, "Warranty Cost") = warranty_cost
    /\ FinalValue(final_df, "Afterwork Cost") = afterwork_cost
    /\ FinalValue(final_df, "Actual Total (All Included)")
           = act_total_with_extra
    /\ FinalValue(final_df, "Gap (USD)") = act_total_with_extra - est_total

\* Afterwork and an actual category cost are both nonzero.
C3_Witness == afterwork_cost > 0 /\ act_total > 0

\* ------------------------------------------------------------------------
\* C4
\* ------------------------------------------------------------------------

\* C4 as stated: gapPct is exactly gapAbs / estimatedTotal * 100, or 0 when
\* estimatedTotal = 0.
C4_ExactGapPercent ==
    /\ Len(final_df) = 7
    /\ IF est_total # 0
       THEN FinalValue(final_df, "Gap (%)") * est_total
                = FinalValue(final_df, "Gap (USD)") * 100 * 100
       ELSE FinalValue(final_df, "Gap (%)") = 0

\* C4, amended: the final summary is produced for every input, and gapPct
\* is gapAbs / estimatedTotal * 100 rounded to two decimals (at most half a
\* hundredth of a percent away), or 0 when estimatedTotal = 0.
C4_RoundedGapPercent ==
    /\ Len(final_df) = 7
    /\ IF est_total # 0
       THEN 2 * Abs(FinalValue(final_df, "Gap (%)") * est_total
                        - FinalValue(final_df, "Gap (USD)") * 100 * 100)
                <= Abs(est_total)
       ELSE FinalValue(final_df, "Gap (%)") = 0

\* The estimated total is 0 while the actual total is not.
C4_Witness == est_total = 0 /\ act_total_with_extra > 0

\* ------------------------------------------------------------------------
\* C5
\* ------------------------------------------------------------------------

Readings(t) ==
    {x \in [s : 0..1, k : 0..Len(t)] :
        /\ x.s <= x.k
        /\ x.s = 1 => t[1] \in {"-", "+"}
        /\ \A i \in (x.s + 1)..x.k : IsDigit(t[i])
        /\ x.k < Len(t) =>
               /\ t[x.k + 1] = "."
               /\ \A i \in (x.k + 2)..Len(t) : IsDigit(t[i])
        /\ \E i \in 1..Len(t) : IsDigit(t[i])}

\* The number t denotes, num / 10^frac, when it has a reading.
Denoted(t) ==
    LET x      == CHOOSE y \in Readings(t) : TRUE
        places == {i \in 1..Len(t) : IsDigit(t[i])}
        weight == [i \in places |->
                      DigitVal[t[i]]
                          * Pow10(Cardinality({j \in places : j > i}))]
        mag    == SetSum(weight, places)
    IN  [num  |-> IF x.s = 1 /\ t[1] = "-" THEN -mag ELSE mag,
         frac |-> IF x.k < Len(t) THEN Len(t) - x.k - 1 ELSE 0]

\* C7 as stated: every estimated field holds exactly the number its text
\* denotes once the commas are removed, or 0 when the text denotes none,
\* and the pass completes.
C7_ParseExact ==
    /\ Len(data) = Cardinality(Fields) /\ Len(final_df) = 7
    /\ \A f \in Fields :
           LET t == SelectSeq(est_raw[f], LAMBDA c : c # ",")
           IN  IF Readings(t) # {}
               THEN EstValue(f) * Pow10(Denoted(t).frac)
                        = Denoted(t).num * 100
               ELSE EstValue(f) = 0

\* C7, amended: every estimated field holds the number its text denotes
\* once the commas are removed, rounded to two decimals (at most half a
\* hundredth away), or 0 when the text denotes none; no text stops the
\* pass, which completes with all its rows.
C7_ParseRounded ==
    /\ Len(data) = Cardinality(Fields) /\ Len(final_df) = 7
    /\ \A f \in Fields :
           LET t == SelectSeq(est_raw[f], LAMBDA c : c # ",")
           IN  IF Readings(t) # {}
               THEN 2 * Abs(EstValue(f) * Pow10(Denoted(t).frac)
                                - Denoted(t).num * 100)
                        <= Pow10(Denoted(t).frac)
               ELSE EstValue(f) = 0

\* A text with a separator that parses to a nonzero amount.
C7_Witness ==
    /\ est_raw["Material"] = <<"1", ",", "1", "7">>
    /\ est_material = 11700
    /\ est_cost.val["Material"] = 11700

\* ------------------------------------------------------------------------
\* C8
\* ------------------------------------------------------------------------

\* C8: every quantity that reaches the calculations is >= 0, and so are
\* every breakdown cost, estimatedTotal and actualTotalFull.
C8_NonNegative ==
    /\ \A f \in Fields : EstValue(f) >= 0
    /\ act_labor_worker >= 0 /\ act_labor_office >= 0 /\ act_material >= 0
    /\ \A m \in DictKeys(act_machine) : act_machine.val[m] >= 0
    /\ warranty_cost >= 0 /\ afterwork_cost >= 0
    /\ \A c \in DictKeys(est_cost) : est_cost.val[c] >= 0
    /\ \A c \in DictKeys(act_cost) : act_cost.val[c] >= 0
    /\ est_total >= 0 /\ act_total_with_extra >= 0

\* ------------------------------------------------------------------------
\* C9
\* ------------------------------------------------------------------------

\* C9: no pass changes the rate table, and the passes of a session that
\* were given the same snapshot produced the same outputs, whatever ran in
\* between.
C9_PassesIndependent ==
    /\ rate_table =
           [LABOR_COST_WORKER |-> 10, LABOR_COST_OFFICE |-> 10,
            MACHINE_COST |->
                [keys |-> <<"CNC", "Robot", "Autoclave">>,
                 val  |-> [m \in {"CNC", "Robot", "Autoclave"} |-> 10]]]
    /\ \A p, q \in log : p.snapshot = q.snapshot => p.outputs = q.outputs
    /\ \E p \in log : p.snapshot = widgets /\ p.outputs.data = data
                      /\ p.outputs.final_df = final_df

\* Two edits later the widgets are back at their first content, and the
\* history holds one more snapshot only.
C9_Witness ==
    /\ edits = 2
    /\ est_raw = [f \in Fields |-> DefaultText]
    /\ \A f \in Fields : act_raw[f] = 0
    /\ Cardinality(log) = 2

\* ------------------------------------------------------------------------
\* C10
\* ------------------------------------------------------------------------

\* C10: the rows' differences add up to estimatedTotal - actualTotalCore,
\* so the gap of the final summary is warranty + afterwork minus that sum.
C10_GapFromDifferences ==
    LET diffs == SumSeq([i \in 1..Len(data) |-> data[i].Difference])
    IN  /\ diffs = est_total - act_total
        /\ FinalValue(final_df, "Gap (USD)")
               = warranty_cost + afterwork_cost - diffs

\* No warranty, no afterwork, and a gap that is not 0.
C10_Witness ==
    /\ warranty_cost = 0 /\ afterwork_cost = 0
    /\ est_total > 0 /\ act_total > 0
    /\ FinalValue(final_df, "Gap (USD)") # 0

=============================================================================
